---------------------------- MODULE Spec2Model ----------------------------
(***************************************************************************)
(* A model of LedCommanderParser.py: the codec of the LED Commander 16/2   *)
(* configuration file (from_file / to_file and the section readers and     *)
(* writers they call, Scene.parse_from / Scene.serialize_to).              *)
(*                                                                         *)
(* Bytes are the naturals 0..255, a bytes object is a sequence of them.    *)
(* Python lists are sequences too: the element the code calls x[i] is      *)
(* x[i + 1] here.                                                          *)
(*                                                                         *)
(* A scene is kept at its full size (16 fixtures x 10 channels, 184 bytes) *)
(* and so are the magic block, the names, the markers and the virtual      *)
(* dimmer sections.  What is scaled down is only how many records repeat:  *)
(* the number of scenes, chase steps, chases, DMX channels, names and      *)
(* trailing 0xFF bytes that the modelled files hold (Num...).  The byte    *)
(* cursor is kept twice: pos is the cursor in the scaled file, offset is   *)
(* the cursor in the file of the program's own counts (..._COUNT), moved   *)
(* by the same loops with the program's counts.                            *)
(***************************************************************************)
EXTENDS Integers, Sequences, FiniteSets, TLC

VARIABLES
    pc,         \* where the caller / from_file / to_file stands
    input,      \* the bytes of the file the caller was given
    out,        \* the bytes of the file to_file writes (NoFile: not written)
    readfile,   \* the bytes of the file from_file has open
    pos,        \* read cursor in readfile (scaled file)
    offset,     \* read or write cursor in the file of the program's counts
    instance,   \* from_file's local `instance` (NoModel outside from_file)
    lcp,        \* the model the caller holds (NoModel: None)
    saved,      \* the model the last to_file was called on
    err,        \* the error logged or raised by the last call ("" if none)
    filename,   \* the file the last from_file was given ("": none yet)
    mutations,  \* how many caller mutations happened so far
    arg,        \* codec specifications: the input of the function
    buf,        \* codec specifications: the bytes in between
    res         \* codec specifications: the result

vars == <<pc, input, out, readfile, pos, offset, instance, lcp, saved, err,
          filename, mutations, arg, buf, res>>

---------------------------------------------------------------------------
(* The program's counts (class attributes of LedCommanderParser).          *)

FIXTURES_COUNT == 16
CHASES_COUNT == 16
CHANNELS_COUNT == 10
CHANNELS_NAMES_COUNT == 12
DMX_CHANNELS_COUNT == 512
STATIC_SCENES_COUNT == 16
CHASE_STEP_COUNT == 2000

(* Literal sizes in the readers and writers.                               *)
MAGIC_SIZE == 512
MAGIC_PAD == 503
SCENE_BITMAP_BYTES == 20
NAME_SIZE == 7
ACME_SIZE == 5
RANDOM_BYTES_SIZE == 3
REST_FF_COUNT == 88003

(* The counts of the scaled files.                                         *)
NumStaticScenes == 2
NumChaseSteps == 2
NumChases == 2
NumDmxChannels == 2
NumChannelNames == 2
NumRestFF == 3
MaxMutations == 1

---------------------------------------------------------------------------
(* Bytes.                                                                  *)

\* None where a model is expected; a file that does not exist
NoModel == [none |-> TRUE]
NoFile == <<-1>>
IndexError == "IndexError"

Min(a, b) == IF a < b THEN a ELSE b

Rep(b, n) == [i \in 1..n |-> b]

RECURSIVE Concat(_)
Concat(ss) == IF ss = <<>> THEN <<>> ELSE Head(ss) \o Concat(Tail(ss))

\* b"succeeded"
SUCCEEDED == <<115, 117, 99, 99, 101, 101, 100, 101, 100>>
\* b"acme\x00"
ACME == <<97, 99, 109, 101, 0>>
\* b"unknown"
UNKNOWN == <<117, 110, 107, 110, 111, 119, 110>>

\* readfile.read(n) with the cursor at p: the bytes there are, at most n.
Read(f, p, n) == IF p >= Len(f) THEN <<>> ELSE SubSeq(f, p + 1, Min(p + n, Len(f)))

\* the cursor after readfile.read(n)
After(f, p, n) == Min(p + n, Len(f))

\* to_bytes with the byte order turned round
to_bytes_big(v, n) == [i \in 1..n |-> (v \div (256 ^ (n - i))) % 256]

\* int.to_bytes(n, 'little') of a value that fits n bytes
FitsBytes(v, n) == v >= 0 /\ v < 256 ^ n
to_bytes(v, n) == [i \in 1..n |-> (v \div (256 ^ (i - 1))) % 256]

\* raw[0] + raw[1] * 256
le16(raw) == raw[1] + raw[2] * 256

\* byte & (1 << bit_id) != 0
BitSet(byte, bit_id) == (byte \div (2 ^ bit_id)) % 2 = 1

---------------------------------------------------------------------------
(* Scene                                                                   *)

SceneSize == FIXTURES_COUNT * CHANNELS_COUNT + SCENE_BITMAP_BYTES + 2 + 1 + 1

\* Scene.__init__
Scene_init ==
    [fixture_channel_values |-> [f \in 1..FIXTURES_COUNT |-> Rep(0, CHANNELS_COUNT)],
     fixture_channel_active |-> [f \in 1..FIXTURES_COUNT |-> Rep(FALSE, CHANNELS_COUNT)],
     mystery_flags_1 |-> <<0, 0>>,
     number_of_values |-> 0,
     mystery_flags_2 |-> <<0>>]

\* Scene.is_set
Scene_is_set(s) ==
    \E f \in 1..FIXTURES_COUNT : \E c \in 1..CHANNELS_COUNT : s.fixture_channel_active[f][c]

\* the flags of a fixture taken to start on a byte boundary
ActiveIndex_padded(fixture, channel) == fixture * 16 + channel

\* The bit of the bitmap that the read loop stores in active[fixture][channel]:
\* index = fixture * CHANNELS_COUNT + channel counts the bits, 8 to a byte,
\* lowest bit first.
ActiveIndex(fixture, channel) == fixture * CHANNELS_COUNT + channel

\* Scene.parse_from raises IndexError: read(1)[0] of b"", the file having
\* ended before the number_of_values byte.
Scene_parse_raises(f, p) ==
    Read(f, p + FIXTURES_COUNT * CHANNELS_COUNT + SCENE_BITMAP_BYTES + 2, 1) = <<>>

\* Scene.parse_from with the cursor of f at p (the scene it returns when it
\* does not raise).  The loop over the bytes read(20) returned stores 8 flags
\* per byte; a flag whose byte was not read keeps Scene.__init__'s False.
Scene_parse_from(f, p) ==
    LET valsAt == p
        bitsAt == p + FIXTURES_COUNT * CHANNELS_COUNT
        bitmap == Read(f, bitsAt, SCENE_BITMAP_BYTES)
        f1At == bitsAt + SCENE_BITMAP_BYTES
        nvAt == f1At + 2
        f2At == nvAt + 1
        nv == Read(f, nvAt, 1)
    IN  [fixture_channel_values |->
            [fx \in 1..FIXTURES_COUNT |->
                Read(f, valsAt + (fx - 1) * CHANNELS_COUNT, CHANNELS_COUNT)],
         fixture_channel_active |->
            [fx \in 1..FIXTURES_COUNT |-> [ch \in 1..CHANNELS_COUNT |->
                LET index == ActiveIndex(fx - 1, ch - 1)
                IN  IF index \div 8 < Len(bitmap)
                    THEN BitSet(bitmap[index \div 8 + 1], index % 8)
                    ELSE FALSE]],
         mystery_flags_1 |-> Read(f, f1At, 2),
         number_of_values |-> IF nv = <<>> THEN -1 ELSE nv[1],
         mystery_flags_2 |-> Read(f, f2At, 1)]

\* One byte of the bitmap Scene.serialize_to writes: bit bit_id of byte
\* byte_id is set iff active[fixture][channel] for
\* (fixture, channel) = divmod(byte_id * 8 + bit_id, CHANNELS_COUNT).
RECURSIVE BitmapByte(_, _, _)
BitmapByte(s, byte_id, bit_id) ==
    IF bit_id = 8 THEN 0
    ELSE LET index == byte_id * 8 + bit_id
             fixture == index \div CHANNELS_COUNT
             channel == index % CHANNELS_COUNT
         IN  (IF s.fixture_channel_active[fixture + 1][channel + 1]
              THEN 2 ^ bit_id ELSE 0) + BitmapByte(s, byte_id, bit_id + 1)

\* Scene.serialize_to: the bytes it writes.
Scene_serialize_to(s) ==
    Concat([f \in 1..FIXTURES_COUNT |->
               [c \in 1..CHANNELS_COUNT |-> to_bytes(s.fixture_channel_values[f][c], 1)[1]]])
    \o [byte_id \in 1..SCENE_BITMAP_BYTES |-> BitmapByte(s, byte_id - 1, 0)]
    \o s.mystery_flags_1
    \o to_bytes(s.number_of_values, 1)
    \o s.mystery_flags_2

---------------------------------------------------------------------------
(* DMX channel assignments.  An assignment is None (NoAssignment here), or *)
(* the pair (fixture, channel), fixture None (NoFixture here) for Aux.     *)

NoAssignment == <<>>
NoFixture == -1

\* the classification of one byte in _read_dmx_channel_assignments
DecodeDmx(b) ==
    IF b = 162 THEN NoAssignment
    ELSE IF b = 161 THEN <<NoFixture, 11>>
    ELSE IF b = 160 THEN <<NoFixture, 10>>
    ELSE <<b \div CHANNELS_COUNT, b % CHANNELS_COUNT>>

\* the two Aux codes taken for each other
EncodeDmx_swapped(a) ==
    IF a = NoAssignment THEN 162
    ELSE IF a[2] = 11 THEN 160
    ELSE IF a[2] = 10 THEN 161
    ELSE to_bytes(a[1] * CHANNELS_COUNT + a[2], 1)[1]

\* the byte _write_dmx_channel_assignments writes for one assignment
EncodeDmx(a) ==
    IF a = NoAssignment THEN 162
    ELSE IF a[2] = 11 THEN 161
    ELSE IF a[2] = 10 THEN 160
    ELSE to_bytes(a[1] * CHANNELS_COUNT + a[2], 1)[1]

---------------------------------------------------------------------------
(* Chase and LedCommanderParser.  static_scenes, chase_steps and chases    *)
(* are lists of references: the position of the object in sceneObjs /      *)
(* chaseObjs, the objects the model owns.  [Scene()] * n is n references   *)
(* to one object.                                                          *)

\* Chase.__init__ (step_ids for `steps` steps)
Chase_init(steps) == [step_ids |-> Rep(0, steps), step_count |-> 0]

\* LedCommanderParser.__init__
LedCommanderParser_init ==
    [channel_names |-> Rep(UNKNOWN, NumChannelNames),
     dmx_assignments |-> Rep(NoAssignment, NumDmxChannels),
     virtual_dimmer_modes |-> Rep(0, FIXTURES_COUNT),
     virtual_dimmer_assignments |-> [f \in 1..FIXTURES_COUNT |-> Rep(0, CHANNELS_COUNT)],
     sceneObjs |-> <<Scene_init, Scene_init>>,
     static_scenes |-> Rep(1, NumStaticScenes),
     chase_steps |-> Rep(2, NumChaseSteps),
     chaseObjs |-> <<Chase_init(NumChaseSteps)>>,
     chases |-> Rep(1, NumChases),
     is_magic_number_ok |-> "unset"]

\* the objects behind the references
StaticScene(m, i) == m.sceneObjs[m.static_scenes[i]]
ChaseStep(m, i) == m.sceneObjs[m.chase_steps[i]]
ChaseOf(m, i) == m.chaseObjs[m.chases[i]]

---------------------------------------------------------------------------
(* The width of each section for given counts.                             *)

ScenesBytes(nStatic, nSteps) == (nStatic + nSteps) * SceneSize
NamesBytes(nNames) == nNames * NAME_SIZE
DmxBytes(nDmx) == nDmx * 1
ChaseInfoBytes(nChases) == nChases * (2 + 1)
MysteryBytes(nDmx) == nDmx * 1
ChaseStepBytes(nChases, nSteps) == nChases * nSteps * 2
VdModesBytes == FIXTURES_COUNT * 1
VdAssignmentsBytes == FIXTURES_COUNT * CHANNELS_COUNT * 1
RestBytes(nFF) == 1 + nFF

---------------------------------------------------------------------------
(* The section readers: what each stores in the instance, reading f from   *)
(* cursor p, and whether it raises.                                        *)

\* b"succeeded" + (b"\x00" * 503)
MAGIC == SUCCEEDED \o Rep(0, MAGIC_PAD)

\* only the text compared, not the padding
check_magic_number_text(f, p) == Read(f, p, Len(SUCCEEDED)) = SUCCEEDED

\* _read_and_check_magic_number
check_magic_number(f, p) == Read(f, p, MAGIC_SIZE) = MAGIC

\* _read_scenes: Scene.parse_from of some scene raises
read_scenes_raises(f, p) ==
    \E k \in 0..(NumStaticScenes + NumChaseSteps - 1) :
        Scene_parse_raises(f, p + k * SceneSize)

\* _read_scenes: every slot of static_scenes, then of chase_steps, is bound
\* to the new object Scene.parse_from returned for it
read_scenes(m, f, p) ==
    [m EXCEPT
        !.sceneObjs = [k \in 1..(NumStaticScenes + NumChaseSteps) |->
                          Scene_parse_from(f, p + (k - 1) * SceneSize)],
        !.static_scenes = [i \in 1..NumStaticScenes |-> i],
        !.chase_steps = [i \in 1..NumChaseSteps |-> NumStaticScenes + i]]

\* _read_names / _read_name: 7 bytes each, or what is left of the file
read_names(m, f, p) ==
    [m EXCEPT !.channel_names =
        [channel_id \in 1..NumChannelNames |->
            Read(f, p + (channel_id - 1) * NAME_SIZE, NAME_SIZE)]]

\* _read_dmx_channel_assignments: readfile.read(1)[0] raises on b""
read_dmx_raises(f, p) == After(f, p, DmxBytes(NumDmxChannels)) - p < DmxBytes(NumDmxChannels)

read_dmx_channel_assignments(m, f, p) ==
    [m EXCEPT !.dmx_assignments =
        [dmx_channel \in 1..NumDmxChannels |-> DecodeDmx(Read(f, p + dmx_channel - 1, 1)[1])]]

\* _read_chase_info: raw[0] + raw[1] * 256 raises when fewer than 2 bytes came
read_chase_info_raises(f, p) ==
    \E chase_id \in 0..(NumChases - 1) : Len(Read(f, p + chase_id * 3, 2)) < 2

\* _read_chase_info: every slot of chases is bound to a new Chase with the
\* step count read; the third byte is read and dropped
read_chase_info(m, f, p) ==
    [m EXCEPT
        !.chaseObjs = [k \in 1..NumChases |->
            [Chase_init(NumChaseSteps) EXCEPT
                !.step_count = le16(Read(f, p + (k - 1) * 3, 2))]],
        !.chases = [i \in 1..NumChases |-> i]]

\* only the text compared, not the NUL after it
check_acme_text(f, p) == Read(f, p, ACME_SIZE - 1) = SubSeq(ACME, 1, ACME_SIZE - 1)

\* _read_acme_info
check_acme(f, p) == Read(f, p, ACME_SIZE) = ACME

\* _read_chase_step_assignments: step_id[0] + step_id[1] * 256 raises when
\* fewer than 2 bytes came
read_chase_steps_raises(f, p) ==
    After(f, p, ChaseStepBytes(NumChases, NumChaseSteps)) - p
        < ChaseStepBytes(NumChases, NumChaseSteps)

\* only the first step_count ids of a chase stored
read_chase_step_assignments_counted(m, f, p, chase_id) ==
    [m EXCEPT !.chaseObjs =
        [k \in 1..NumChases |->
            [m.chaseObjs[k] EXCEPT !.step_ids =
                [step \in 1..NumChaseSteps |->
                    IF step <= m.chaseObjs[k].step_count
                    THEN le16(Read(f, p + ((k - 1) * NumChaseSteps + step - 1) * 2, 2))
                    ELSE 0]]]]

\* _read_chase_step_assignments: self.chases[chase_id].step_ids[step] = id,
\* stored in the object the slot refers to, chase after chase
RECURSIVE read_chase_step_assignments(_, _, _, _)
read_chase_step_assignments(m, f, p, chase_id) ==
    IF chase_id = NumChases THEN m
    ELSE LET ref == m.chases[chase_id + 1]
             ids == [step \in 1..NumChaseSteps |->
                        le16(Read(f, p + (chase_id * NumChaseSteps + step - 1) * 2, 2))]
         IN  read_chase_step_assignments(
                 [m EXCEPT !.chaseObjs[ref].step_ids = ids], f, p, chase_id + 1)

\* _read_virtual_dimmer_modes: readfile.read(1)[0] raises on b""
read_vd_modes_raises(f, p) == After(f, p, VdModesBytes) - p < VdModesBytes

read_virtual_dimmer_modes(m, f, p) ==
    [m EXCEPT !.virtual_dimmer_modes =
        [fixture_id \in 1..FIXTURES_COUNT |-> Read(f, p + fixture_id - 1, 1)[1]]]

\* _read_virtual_dimmer_assignments: readfile.read(1)[0] raises on b""
read_vd_assignments_raises(f, p) == After(f, p, VdAssignmentsBytes) - p < VdAssignmentsBytes

read_virtual_dimmer_assignments(m, f, p) ==
    [m EXCEPT !.virtual_dimmer_assignments =
        [fixture_id \in 1..FIXTURES_COUNT |-> [channel_id \in 1..CHANNELS_COUNT |->
            Read(f, p + (fixture_id - 1) * CHANNELS_COUNT + channel_id - 1, 1)[1]]]]

---------------------------------------------------------------------------
(* The section writers: the bytes each writes for model m.  Every model   *)
(* reached here holds values that fit the width to_bytes is given (a byte  *)
(* read from a file does, and so do the caller's edits below), so that no  *)
(* to_bytes raises OverflowError.                                          *)

write_magic_number == MAGIC

write_scenes(m) ==
    Concat([i \in 1..NumStaticScenes |-> Scene_serialize_to(StaticScene(m, i))])
    \o Concat([i \in 1..NumChaseSteps |-> Scene_serialize_to(ChaseStep(m, i))])

write_names(m) == Concat(m.channel_names)

write_dmx_channel_assignments(m) ==
    [dmx_channel \in 1..NumDmxChannels |-> EncodeDmx(m.dmx_assignments[dmx_channel])]

\* step_count.to_bytes(2, 'little'), then b"\x05"
write_chase_info(m) ==
    Concat([i \in 1..NumChases |-> to_bytes(ChaseOf(m, i).step_count, 2) \o <<5>>])

write_acme_info == ACME

\* b"\x02" for each DMX channel
write_mystery_dmx_info == Rep(2, NumDmxChannels)

write_chase_step_assignments(m) ==
    Concat([i \in 1..NumChases |->
        Concat([step \in 1..NumChaseSteps |-> to_bytes(ChaseOf(m, i).step_ids[step], 2)])])

\* b"\x4B\x01\x00"
write_random_bytes == <<75, 1, 0>>

write_virtual_dimmer_modes(m) ==
    [fixture_id \in 1..FIXTURES_COUNT |-> to_bytes(m.virtual_dimmer_modes[fixture_id], 1)[1]]

write_virtual_dimmer_assignments(m) ==
    Concat([fixture_id \in 1..FIXTURES_COUNT |->
        [channel_id \in 1..CHANNELS_COUNT |->
            to_bytes(m.virtual_dimmer_assignments[fixture_id][channel_id], 1)[1]]])

\* the trailing run without the byte before it
write_rest_ff(nFF) == Rep(255, nFF)

\* b"\x00", then b"\xFF" * 88003 (nFF of them in the scaled file)
write_rest(nFF) == <<0>> \o Rep(255, nFF)

---------------------------------------------------------------------------
(* The caller.  It holds at most one model (lcp), was given one file       *)
(* (input) and writes one (out).                                           *)

AtCaller == pc \in {"start", "constructed", "mutated", "from_file_returned", "to_file_returned"}

FileNamed(name) == IF name = "input" THEN input ELSE out

\* lcp = LedCommanderParser()
Construct ==
    /\ pc = "start"
    /\ lcp' = LedCommanderParser_init
    /\ pc' = "constructed"
    /\ err' = ""
    /\ UNCHANGED <<input, out, readfile, pos, offset, instance, saved, filename,
                   mutations, arg, buf, res>>

---------------------------------------------------------------------------
(* from_file, one action for each call it makes.                           *)

\* The cursors after a reader asked for w bytes in all; wFull is the width
\* of the section for the program's counts.  A section that was there in
\* full moves offset by wFull, a short one by the bytes that were left.
Advance(w, wFull) ==
    LET got == After(readfile, pos, w) - pos
    IN  /\ pos' = pos + got
        /\ offset' = offset + (IF got = w THEN wFull ELSE got)

\* an exception leaves from_file: nothing is returned, the local is lost
Raise(e) ==
    /\ pc' = "raised"
    /\ err' = e
    /\ instance' = NoModel
    /\ UNCHANGED lcp

\* `return None` after error(msg)
ReturnNone(msg) ==
    /\ pc' = "from_file_returned"
    /\ err' = msg
    /\ instance' = NoModel
    /\ lcp' = NoModel

\* the next call of from_file, the instance being now m
Continue(next, m) ==
    /\ pc' = next
    /\ instance' = m
    /\ UNCHANGED <<lcp, err>>

\* from_file(name): instance = cls(), open(filename, "rb")
from_file(name) ==
    /\ AtCaller
    /\ FileNamed(name) # NoFile
    /\ filename' = name
    /\ readfile' = FileNamed(name)
    /\ pos' = 0
    /\ offset' = 0
    /\ instance' = LedCommanderParser_init
    /\ err' = ""
    /\ pc' = "_read_and_check_magic_number"
    /\ UNCHANGED <<input, out, lcp, saved, mutations, arg, buf, res>>

ReadFrame == UNCHANGED <<input, out, readfile, saved, filename, mutations, arg, buf, res>>

_read_and_check_magic_number ==
    /\ pc = "_read_and_check_magic_number"
    /\ Advance(MAGIC_SIZE, MAGIC_SIZE)
    /\ IF check_magic_number(readfile, pos)
       THEN Continue("_read_scenes", [instance EXCEPT !.is_magic_number_ok = "True"])
       ELSE ReturnNone("Magic number missing! Abort")
    /\ ReadFrame

_read_scenes ==
    /\ pc = "_read_scenes"
    /\ Advance(ScenesBytes(NumStaticScenes, NumChaseSteps),
               ScenesBytes(STATIC_SCENES_COUNT, CHASE_STEP_COUNT))
    /\ IF read_scenes_raises(readfile, pos)
       THEN Raise(IndexError)
       ELSE Continue("_read_names", read_scenes(instance, readfile, pos))
    /\ ReadFrame

_read_names ==
    /\ pc = "_read_names"
    /\ Advance(NamesBytes(NumChannelNames), NamesBytes(CHANNELS_NAMES_COUNT))
    /\ Continue("_read_dmx_channel_assignments", read_names(instance, readfile, pos))
    /\ ReadFrame

_read_dmx_channel_assignments ==
    /\ pc = "_read_dmx_channel_assignments"
    /\ Advance(DmxBytes(NumDmxChannels), DmxBytes(DMX_CHANNELS_COUNT))
    /\ IF read_dmx_raises(readfile, pos)
       THEN Raise(IndexError)
       ELSE Continue("_read_chase_info", read_dmx_channel_assignments(instance, readfile, pos))
    /\ ReadFrame

_read_chase_info ==
    /\ pc = "_read_chase_info"
    /\ Advance(ChaseInfoBytes(NumChases), ChaseInfoBytes(CHASES_COUNT))
    /\ IF read_chase_info_raises(readfile, pos)
       THEN Raise(IndexError)
       ELSE Continue("_read_acme_info", read_chase_info(instance, readfile, pos))
    /\ ReadFrame

_read_acme_info ==
    /\ pc = "_read_acme_info"
    /\ Advance(ACME_SIZE, ACME_SIZE)
    /\ IF check_acme(readfile, pos)
       THEN Continue("_read_mystery_dmx_info", [instance EXCEPT !.is_magic_number_ok = "True"])
       ELSE ReturnNone("ACME string missing! Abort")
    /\ ReadFrame

\* the bytes are read and dropped
_read_mystery_dmx_info ==
    /\ pc = "_read_mystery_dmx_info"
    /\ Advance(MysteryBytes(NumDmxChannels), MysteryBytes(DMX_CHANNELS_COUNT))
    /\ Continue("_read_chase_step_assignments", instance)
    /\ ReadFrame

_read_chase_step_assignments ==
    /\ pc = "_read_chase_step_assignments"
    /\ Advance(ChaseStepBytes(NumChases, NumChaseSteps),
               ChaseStepBytes(CHASES_COUNT, CHASE_STEP_COUNT))
    /\ IF read_chase_steps_raises(readfile, pos)
       THEN Raise(IndexError)
       ELSE Continue("_read_random_bytes",
                     read_chase_step_assignments(instance, readfile, pos, 0))
    /\ ReadFrame

\* the bytes are read and dropped
_read_random_bytes ==
    /\ pc = "_read_random_bytes"
    /\ Advance(RANDOM_BYTES_SIZE, RANDOM_BYTES_SIZE)
    /\ Continue("_read_virtual_dimmer_modes", instance)
    /\ ReadFrame

_read_virtual_dimmer_modes ==
    /\ pc = "_read_virtual_dimmer_modes"
    /\ Advance(VdModesBytes, VdModesBytes)
    /\ IF read_vd_modes_raises(readfile, pos)
       THEN Raise(IndexError)
       ELSE Continue("_read_virtual_dimmer_assignments",
                     read_virtual_dimmer_modes(instance, readfile, pos))
    /\ ReadFrame

_read_virtual_dimmer_assignments ==
    /\ pc = "_read_virtual_dimmer_assignments"
    /\ Advance(VdAssignmentsBytes, VdAssignmentsBytes)
    /\ IF read_vd_assignments_raises(readfile, pos)
       THEN Raise(IndexError)
       ELSE Continue("_read_rest", read_virtual_dimmer_assignments(instance, readfile, pos))
    /\ ReadFrame

\* the result of the comparison with the run of FF made a third gate
_read_rest_checked ==
    /\ pc = "_read_rest"
    /\ LET left == Len(readfile) - pos
       IN  /\ Advance(left, left)
           /\ IF Read(readfile, pos, left) = Rep(255, left)
              THEN pc' = "from_file_returned" /\ lcp' = instance /\ instance' = NoModel
                   /\ UNCHANGED err
              ELSE ReturnNone("Rest of file is not FF! Abort")
    /\ ReadFrame

\* readfile.read(): all that is left; its result is dropped.  Then
\* `return instance`.
_read_rest ==
    /\ pc = "_read_rest"
    /\ LET left == Len(readfile) - pos
       IN  Advance(left, IF left >= RestBytes(NumRestFF)
                         THEN left + RestBytes(REST_FF_COUNT) - RestBytes(NumRestFF)
                         ELSE left)
    /\ pc' = "from_file_returned"
    /\ lcp' = instance
    /\ instance' = NoModel
    /\ UNCHANGED err
    /\ ReadFrame

---------------------------------------------------------------------------
(* to_file, one action for each call it makes.                             *)

\* writefile.write(bytes); wFull - w more bytes go to the file of the
\* program's counts, w being the width of the section in the scaled file
Write(bytes, w, wFull) ==
    /\ out' = out \o bytes
    /\ offset' = offset + Len(bytes) + (wFull - w)

WriteFrame == UNCHANGED <<input, readfile, pos, instance, lcp, saved, err, filename,
                          mutations, arg, buf, res>>

\* lcp.to_file(name): open(filename, "wb")
to_file ==
    /\ AtCaller
    /\ lcp # NoModel
    /\ out' = <<>>
    /\ offset' = 0
    /\ saved' = lcp
    /\ err' = ""
    /\ pc' = "_write_magic_number"
    /\ UNCHANGED <<input, readfile, pos, instance, lcp, filename, mutations, arg, buf, res>>

_write_magic_number ==
    /\ pc = "_write_magic_number"
    /\ Write(write_magic_number, MAGIC_SIZE, MAGIC_SIZE)
    /\ pc' = "_write_scenes"
    /\ WriteFrame

_write_scenes ==
    /\ pc = "_write_scenes"
    /\ Write(write_scenes(lcp), ScenesBytes(NumStaticScenes, NumChaseSteps),
             ScenesBytes(STATIC_SCENES_COUNT, CHASE_STEP_COUNT))
    /\ pc' = "_write_names"
    /\ WriteFrame

_write_names ==
    /\ pc = "_write_names"
    /\ Write(write_names(lcp), NamesBytes(NumChannelNames), NamesBytes(CHANNELS_NAMES_COUNT))
    /\ pc' = "_write_dmx_channel_assignments"
    /\ WriteFrame

_write_dmx_channel_assignments ==
    /\ pc = "_write_dmx_channel_assignments"
    /\ Write(write_dmx_channel_assignments(lcp), DmxBytes(NumDmxChannels),
             DmxBytes(DMX_CHANNELS_COUNT))
    /\ pc' = "_write_chase_info"
    /\ WriteFrame

_write_chase_info ==
    /\ pc = "_write_chase_info"
    /\ Write(write_chase_info(lcp), ChaseInfoBytes(NumChases), ChaseInfoBytes(CHASES_COUNT))
    /\ pc' = "_write_acme_info"
    /\ WriteFrame

_write_acme_info ==
    /\ pc = "_write_acme_info"
    /\ Write(write_acme_info, ACME_SIZE, ACME_SIZE)
    /\ pc' = "_write_mystery_dmx_info"
    /\ WriteFrame

_write_mystery_dmx_info ==
    /\ pc = "_write_mystery_dmx_info"
    /\ Write(write_mystery_dmx_info, MysteryBytes(NumDmxChannels),
             MysteryBytes(DMX_CHANNELS_COUNT))
    /\ pc' = "_write_chase_step_assignments"
    /\ WriteFrame

_write_chase_step_assignments ==
    /\ pc = "_write_chase_step_assignments"
    /\ Write(write_chase_step_assignments(lcp), ChaseStepBytes(NumChases, NumChaseSteps),
             ChaseStepBytes(CHASES_COUNT, CHASE_STEP_COUNT))
    /\ pc' = "_write_random_bytes"
    /\ WriteFrame

_write_random_bytes ==
    /\ pc = "_write_random_bytes"
    /\ Write(write_random_bytes, RANDOM_BYTES_SIZE, RANDOM_BYTES_SIZE)
    /\ pc' = "_write_virtual_dimmer_modes"
    /\ WriteFrame

_write_virtual_dimmer_modes ==
    /\ pc = "_write_virtual_dimmer_modes"
    /\ Write(write_virtual_dimmer_modes(lcp), VdModesBytes, VdModesBytes)
    /\ pc' = "_write_virtual_dimmer_assignments"
    /\ WriteFrame

_write_virtual_dimmer_assignments ==
    /\ pc = "_write_virtual_dimmer_assignments"
    /\ Write(write_virtual_dimmer_assignments(lcp), VdAssignmentsBytes, VdAssignmentsBytes)
    /\ pc' = "_write_rest"
    /\ WriteFrame

_write_rest ==
    /\ pc = "_write_rest"
    /\ Write(write_rest(NumRestFF), RestBytes(NumRestFF), RestBytes(REST_FF_COUNT))
    /\ pc' = "to_file_returned"
    /\ WriteFrame

---------------------------------------------------------------------------
(* The files the caller may be given.                                      *)

\* the counts of the program and of the scaled files
ProgramCounts ==
    [static |-> STATIC_SCENES_COUNT, steps |-> CHASE_STEP_COUNT, chases |-> CHASES_COUNT,
     dmx |-> DMX_CHANNELS_COUNT, names |-> CHANNELS_NAMES_COUNT, ff |-> REST_FF_COUNT]
ScaledCounts ==
    [static |-> NumStaticScenes, steps |-> NumChaseSteps, chases |-> NumChases,
     dmx |-> NumDmxChannels, names |-> NumChannelNames, ff |-> NumRestFF]

\* the widths of the sections in the order from_file and to_file go through
\* them: magic, scenes, names, dmx, chase info, acme, mystery dmx, chase
\* steps, random bytes, virtual dimmer modes, assignments, rest
Widths(c) ==
    <<MAGIC_SIZE, ScenesBytes(c.static, c.steps), NamesBytes(c.names), DmxBytes(c.dmx),
      ChaseInfoBytes(c.chases), ACME_SIZE, MysteryBytes(c.dmx),
      ChaseStepBytes(c.chases, c.steps), RANDOM_BYTES_SIZE, VdModesBytes,
      VdAssignmentsBytes, RestBytes(c.ff)>>

RECURSIVE Sum(_)
Sum(ws) == IF ws = <<>> THEN 0 ELSE Head(ws) + Sum(Tail(ws))

\* where section k (1..12) starts, and the size of the whole file
Start(c, k) == Sum(SubSeq(Widths(c), 1, k - 1))
FileSize(c) == Sum(Widths(c))

SecScenes == 2
SecNames == 3
SecDmx == 4
SecChaseInfo == 5
SecAcme == 6
SecMystery == 7
SecChaseSteps == 8
SecRandom == 9
SecVdModes == 10
SecVdAssignments == 11
SecRest == 12

At(k) == Start(ScaledCounts, k)

\* f with bytes written over it from position at on
Patch(f, at, bytes) ==
    [i \in 1..Len(f) |-> IF at < i /\ i <= at + Len(bytes) THEN bytes[i - at] ELSE f[i]]

\* the minimal valid file: every section zero except the two markers
MinimalFile ==
    MAGIC \o Rep(0, At(SecAcme) - At(SecScenes)) \o ACME
          \o Rep(0, FileSize(ScaledCounts) - At(SecMystery))

\* a file as the layout comment at the top of the source describes one: the
\* scenes a block of FF then a block of 00, every DMX channel unassigned,
\* 00 00 05 per chase, a block of 02, 4B 01 00, a trailing run of FF
ObservedFile ==
    MAGIC
    \o Concat([k \in 1..(NumStaticScenes + NumChaseSteps) |->
                  Rep(255, FIXTURES_COUNT * CHANNELS_COUNT) \o Rep(0, SCENE_BITMAP_BYTES + 4)])
    \o Rep(0, NamesBytes(NumChannelNames))
    \o Rep(162, NumDmxChannels)
    \o Concat([k \in 1..NumChases |-> <<0, 0, 5>>])
    \o ACME
    \o Rep(2, NumDmxChannels)
    \o Rep(0, ChaseStepBytes(NumChases, NumChaseSteps))
    \o <<75, 1, 0>>
    \o Rep(0, VdModesBytes + VdAssignmentsBytes)
    \o <<0>> \o Rep(255, NumRestFF)

\* a valid file that departs from the observed constants everywhere: scenes
\* with values and flags, names, assigned DMX channels, a step count above
\* CHASE_STEP_COUNT with a reserved byte that is not 05, a block that is not
\* 02, step ids beyond the step counts, other unconfirmed bytes, dimmer
\* modes and flags, and a trailing region that is not FF
BusyFile ==
    MAGIC
    \o Concat([k \in 1..(NumStaticScenes + NumChaseSteps) |->
                  [i \in 1..(FIXTURES_COUNT * CHANNELS_COUNT) |-> (i * 7 + k) % 256]
                  \o [j \in 1..SCENE_BITMAP_BYTES |-> (j * 37 + k * 11) % 256]
                  \o <<1, 0, k, 9>>])
    \o Concat([k \in 1..NumChannelNames |-> <<82, 101, 100, 48 + k, 0, 0, 0>>])
    \o [k \in 1..NumDmxChannels |-> (k * 83) % 256]
    \o Concat([k \in 1..NumChases |->
                  to_bytes(IF k = 1 THEN CHASE_STEP_COUNT + 1 ELSE k - 1, 2) \o <<7>>])
    \o ACME
    \o Rep(3, NumDmxChannels)
    \o Concat([k \in 1..(NumChases * NumChaseSteps) |-> to_bytes(300 * k, 2)])
    \o <<1, 2, 3>>
    \o [f \in 1..FIXTURES_COUNT |-> f]
    \o [i \in 1..(FIXTURES_COUNT * CHANNELS_COUNT) |-> i % 3]
    \o <<9>> \o Rep(0, NumRestFF)

BaseFiles == {MinimalFile, ObservedFile}

ByteSamples == {0, 1, 5, 160, 161, 162, 163, 255}
WordSamples == {1, NumChaseSteps, NumChaseSteps + 1, CHASE_STEP_COUNT, CHASE_STEP_COUNT + 1, 65535}

\* the positions where a single byte is varied: in each section its first
\* and its last byte, and in the first scene also the bytes around the
\* bitmap and the trailing fields
BytePatchAt ==
    {0, 8, 9, MAGIC_SIZE - 1}
    \cup UNION {{At(k), At(k + 1) - 1} : k \in SecScenes..SecVdAssignments}
    \cup {At(SecScenes) + d : d \in {159, 160, 161, 179, 180, 181, 182, 183}}
    \cup {At(SecChaseInfo) + 2}
    \cup {At(SecRest), At(SecRest) + 1, FileSize(ScaledCounts) - 1}

\* the positions where a 16-bit value is varied: the first and the last
\* step count, the first and the last step id
WordPatchAt ==
    {At(SecChaseInfo), At(SecAcme) - 3, At(SecChaseSteps), At(SecRandom) - 2}

\* the lengths a file is cut to: at each section's start, one byte into it
\* and one byte before its end, and inside the first scene
CutAt ==
    {0, 5, 9}
    \cup UNION {{At(k), At(k) + 1, At(k + 1) - 1} : k \in SecScenes..SecVdAssignments}
    \cup {At(SecScenes) + d : d \in {5, 160, 170, 182, 183}}
    \cup {At(SecRest), At(SecRest) + 1, FileSize(ScaledCounts) - 1}

Inputs ==
    BaseFiles
    \cup {Patch(f, at, <<v>>) : f \in BaseFiles, at \in BytePatchAt, v \in ByteSamples}
    \cup {Patch(f, at, to_bytes(w, 2)) : f \in BaseFiles, at \in WordPatchAt, w \in WordSamples}
    \cup {SubSeq(ObservedFile, 1, n) : n \in CutAt}
    \cup {BusyFile, ObservedFile \o <<255>>}

---------------------------------------------------------------------------
(* The program: from_file and to_file on the files the caller was given.   *)

NoValue == [none |-> TRUE]

Init ==
    /\ pc = "start"
    /\ input \in Inputs
    /\ out = NoFile
    /\ readfile = NoFile
    /\ pos = 0
    /\ offset = 0
    /\ instance = NoModel
    /\ lcp = NoModel
    /\ saved = NoModel
    /\ err = ""
    /\ filename = ""
    /\ mutations = 0
    /\ arg = NoValue
    /\ buf = <<>>
    /\ res = NoValue

FromFileSteps ==
    \/ _read_and_check_magic_number
    \/ _read_scenes
    \/ _read_names
    \/ _read_dmx_channel_assignments
    \/ _read_chase_info
    \/ _read_acme_info
    \/ _read_mystery_dmx_info
    \/ _read_chase_step_assignments
    \/ _read_random_bytes
    \/ _read_virtual_dimmer_modes
    \/ _read_virtual_dimmer_assignments
    \/ _read_rest

ToFileSteps ==
    \/ _write_magic_number
    \/ _write_scenes
    \/ _write_names
    \/ _write_dmx_channel_assignments
    \/ _write_chase_info
    \/ _write_acme_info
    \/ _write_mystery_dmx_info
    \/ _write_chase_step_assignments
    \/ _write_random_bytes
    \/ _write_virtual_dimmer_modes
    \/ _write_virtual_dimmer_assignments
    \/ _write_rest

Next ==
    \/ \E name \in {"input", "out"} : from_file(name)
    \/ FromFileSteps
    \/ to_file
    \/ ToFileSteps

Spec == Init /\ [][Next]_vars

---------------------------------------------------------------------------
(* The caller's edits of the model it holds, between a load or a           *)
(* construction and a save.  An edit goes through the reference in the     *)
(* slot, as lcp.static_scenes[i].fixture_channel_values[f][c] = v does, and *)
(* so changes the object every slot holding that reference sees.  Every    *)
(* edit keeps the value within the width to_file writes it in.             *)

SceneSlots == {[list |-> "static_scenes", slot |-> 1],
               [list |-> "chase_steps", slot |-> NumChaseSteps]}

Cells == {<<1, 1>>, <<FIXTURES_COUNT, CHANNELS_COUNT>>}

SceneRef(m, at) ==
    IF at.list = "static_scenes" THEN m.static_scenes[at.slot] ELSE m.chase_steps[at.slot]

\* the edit, applied to the model the caller holds
Mutate(m) ==
    /\ AtCaller
    /\ lcp # NoModel
    /\ mutations < MaxMutations
    /\ lcp' = m
    /\ mutations' = mutations + 1
    /\ pc' = "mutated"
    /\ UNCHANGED <<input, out, readfile, pos, offset, instance, saved, err, filename,
                   arg, buf, res>>

\* lcp.<list>[slot].fixture_channel_values[f][c] = v
SetValue ==
    \E at \in SceneSlots, cell \in Cells, v \in {255} :
        Mutate([lcp EXCEPT !.sceneObjs[SceneRef(lcp, at)]
                               .fixture_channel_values[cell[1]][cell[2]] = v])

\* lcp.<list>[slot].fixture_channel_active[f][c] = True
SetActive ==
    \E at \in SceneSlots, cell \in Cells :
        Mutate([lcp EXCEPT !.sceneObjs[SceneRef(lcp, at)]
                               .fixture_channel_active[cell[1]][cell[2]] = TRUE])

\* lcp.chases[slot].step_count = n
SetStepCount ==
    \E slot \in {NumChases}, n \in {1, 65535} :
        Mutate([lcp EXCEPT !.chaseObjs[lcp.chases[slot]].step_count = n])

\* lcp.chases[slot].step_ids[step] = id
SetStepId ==
    \E slot \in {1}, step \in {NumChaseSteps}, id \in {513} :
        Mutate([lcp EXCEPT !.chaseObjs[lcp.chases[slot]].step_ids[step] = id])

\* lcp.dmx_assignments[k] = a; (16, 1) is a fixture the console does not have
SetDmx ==
    \E k \in {NumDmxChannels}, a \in {<<3, 7>>, <<NoFixture, 11>>, <<FIXTURES_COUNT, 1>>} :
        Mutate([lcp EXCEPT !.dmx_assignments[k] = a])

\* lcp.virtual_dimmer_modes[f] = mode
SetVdMode ==
    \E f \in {FIXTURES_COUNT}, mode \in {2} :
        Mutate([lcp EXCEPT !.virtual_dimmer_modes[f] = mode])

\* lcp.virtual_dimmer_assignments[f][c] = v
SetVdAssignment ==
    \E cell \in {<<FIXTURES_COUNT, CHANNELS_COUNT>>}, v \in {1} :
        Mutate([lcp EXCEPT !.virtual_dimmer_assignments[cell[1]][cell[2]] = v])

\* lcp.channel_names[k] = b"Red\x00\x00\x00\x00"
SetName ==
    \E k \in {1}, name \in {<<82, 101, 100, 0, 0, 0, 0>>} :
        Mutate([lcp EXCEPT !.channel_names[k] = name])

InitCaller ==
    /\ pc = "start"
    /\ input \in BaseFiles
    /\ out = NoFile
    /\ readfile = NoFile
    /\ pos = 0
    /\ offset = 0
    /\ instance = NoModel
    /\ lcp = NoModel
    /\ saved = NoModel
    /\ err = ""
    /\ filename = ""
    /\ mutations = 0
    /\ arg = NoValue
    /\ buf = <<>>
    /\ res = NoValue

NextCaller ==
    \/ Construct
    \/ SetValue
    \/ SetActive
    \/ SetStepCount
    \/ SetStepId
    \/ SetDmx
    \/ SetVdMode
    \/ SetVdAssignment
    \/ SetName
    \/ \E name \in {"input", "out"} : from_file(name)
    \/ FromFileSteps
    \/ to_file
    \/ ToFileSteps

CallerSpec == InitCaller /\ [][NextCaller]_vars

---------------------------------------------------------------------------
(* Scene.serialize_to followed by Scene.parse_from, on its own.            *)

\* the scene with the given fields; active is the set of the bit indexes
\* (fixture * CHANNELS_COUNT + channel) of the cells that are active
SceneOf(values, active, flags_1, count, flags_2) ==
    [fixture_channel_values |->
        [f \in 1..FIXTURES_COUNT |-> [c \in 1..CHANNELS_COUNT |->
            values[(f - 1) * CHANNELS_COUNT + c]]],
     fixture_channel_active |->
        [f \in 1..FIXTURES_COUNT |-> [c \in 1..CHANNELS_COUNT |->
            ((f - 1) * CHANNELS_COUNT + c - 1) \in active]],
     mystery_flags_1 |-> flags_1,
     number_of_values |-> count,
     mystery_flags_2 |-> flags_2]

CellIndexes == 0..(FIXTURES_COUNT * CHANNELS_COUNT - 1)

ValuePatterns ==
    {Rep(0, FIXTURES_COUNT * CHANNELS_COUNT),
     Rep(255, FIXTURES_COUNT * CHANNELS_COUNT),
     [i \in 1..(FIXTURES_COUNT * CHANNELS_COUNT) |-> i],
     [i \in 1..(FIXTURES_COUNT * CHANNELS_COUNT) |-> 255 - i]}

ActivePatterns ==
    {{i} : i \in CellIndexes}
    \cup {CellIndexes \ {i} : i \in {0, 7, 8, 9, 10, 79, 80, 159}}
    \cup {{}, CellIndexes, {i \in CellIndexes : i % 2 = 0}, {i \in CellIndexes : i % 10 = 3},
          {i \in CellIndexes : i \div 10 = 5}}

SceneInputs ==
    {SceneOf(v, a, f1, n, f2) :
        v \in ValuePatterns, a \in ActivePatterns,
        f1 \in {<<0, 0>>, <<1, 0>>, <<255, 128>>}, n \in {0, 160, 255}, f2 \in {<<0>>, <<255>>}}

InitScene ==
    /\ pc = "scene"
    /\ arg \in SceneInputs
    /\ buf = <<>>
    /\ res = NoValue
    /\ input = NoFile
    /\ out = NoFile
    /\ readfile = NoFile
    /\ pos = 0
    /\ offset = 0
    /\ instance = NoModel
    /\ lcp = NoModel
    /\ saved = NoModel
    /\ err = ""
    /\ filename = ""
    /\ mutations = 0

CodecFrame == UNCHANGED <<input, out, readfile, pos, offset, instance, lcp, saved, err,
                          filename, mutations, arg>>

\* arg.serialize_to(writefile)
serialize_to ==
    /\ pc = "scene"
    /\ buf' = Scene_serialize_to(arg)
    /\ pc' = "scene_serialized"
    /\ UNCHANGED res
    /\ CodecFrame

\* Scene.parse_from(readfile) on the bytes written
parse_from ==
    /\ pc = "scene_serialized"
    /\ ~Scene_parse_raises(buf, 0)
    /\ res' = Scene_parse_from(buf, 0)
    /\ pc' = "scene_parsed"
    /\ UNCHANGED buf
    /\ CodecFrame

NextScene == serialize_to \/ parse_from

SceneSpec == InitScene /\ [][NextScene]_vars

---------------------------------------------------------------------------
(* The classification of a DMX assignment byte and its inverse, on their   *)
(* own.                                                                    *)

InitDmx ==
    /\ pc = "dmx"
    /\ arg \in 0..255
    /\ buf = <<>>
    /\ res = NoAssignment
    /\ input = NoFile
    /\ out = NoFile
    /\ readfile = NoFile
    /\ pos = 0
    /\ offset = 0
    /\ instance = NoModel
    /\ lcp = NoModel
    /\ saved = NoModel
    /\ err = ""
    /\ filename = ""
    /\ mutations = 0

\* one turn of the loop of _read_dmx_channel_assignments on the byte arg
dmx_decode ==
    /\ pc = "dmx"
    /\ res' = DecodeDmx(arg)
    /\ pc' = "dmx_decoded"
    /\ UNCHANGED buf
    /\ CodecFrame

\* one turn of the loop of _write_dmx_channel_assignments on the result
dmx_encode ==
    /\ pc = "dmx_decoded"
    /\ buf' = <<EncodeDmx(res)>>
    /\ pc' = "dmx_encoded"
    /\ UNCHANGED res
    /\ CodecFrame

NextDmx == dmx_decode \/ dmx_encode

DmxSpec == InitDmx /\ [][NextDmx]_vars

---------------------------------------------------------------------------
(* The claims.                                                             *)

\* f starts with the 9 bytes "succeeded" followed by 503 zero bytes
ValidMagicBlock(f) ==
    /\ Len(f) >= 512
    /\ SubSeq(f, 1, 9) = <<115, 117, 99, 99, 101, 101, 100, 101, 100>>
    /\ \A i \in 10..512 : f[i] = 0

\* the 5 bytes where the scaled file has its acme marker are "acme" and NUL
ValidAcmeMarker(f) ==
    /\ Len(f) >= At(SecAcme) + 5
    /\ SubSeq(f, At(SecAcme) + 1, At(SecAcme) + 5) = <<97, 99, 109, 101, 0>>

\* f has the size of a whole file
FullSize(f) == Len(f) = FileSize(ScaledCounts)

AfterMagic ==
    {"_read_scenes", "_read_names", "_read_dmx_channel_assignments", "_read_chase_info",
     "_read_acme_info"}

AfterAcme ==
    {"_read_mystery_dmx_info", "_read_chase_step_assignments", "_read_random_bytes",
     "_read_virtual_dimmer_modes", "_read_virtual_dimmer_assignments", "_read_rest"}

\* C1: when the first 512 bytes of the file from_file reads are not
\* "succeeded" and 503 zero bytes, from_file reads no section after them
\* (it neither reaches a later reader nor raises in one), and it returns
\* None after logging the missing magic number, the cursor at the end of the
\* 512 bytes (or of the file, if shorter).
C1_MagicGate ==
    (readfile # NoFile /\ ~ValidMagicBlock(readfile)) =>
        /\ pc \notin (AfterMagic \cup AfterAcme \cup {"raised"})
        /\ pc = "from_file_returned" =>
              /\ err = "Magic number missing! Abort"
              /\ lcp = NoModel
              /\ instance = NoModel
              /\ pos <= 512
              /\ pos = Min(512, Len(readfile))
              /\ offset = pos

\* a whole file whose text "succeeded" is intact and whose padding is not
\* was refused, 512 bytes read
C1_Witness ==
    /\ pc = "from_file_returned"
    /\ FullSize(readfile)
    /\ SubSeq(readfile, 1, 9) = SUCCEEDED
    /\ ~ValidMagicBlock(readfile)
    /\ err = "Magic number missing! Abort"
    /\ lcp = NoModel
    /\ pos = 512

\* C2: for a file with a valid magic block that reaches to the acme marker,
\* the marker is read at offset 0x5AD84, right after the chase headers; if
\* its 5 bytes are not "acme" and NUL, from_file reads none of the later
\* sections and returns None after logging the missing ACME string, the
\* cursor just behind the marker (offset 0x5AD89).
C2_AcmeGate ==
    (readfile # NoFile /\ ValidMagicBlock(readfile) /\ Len(readfile) >= At(SecAcme)) =>
        /\ pc = "_read_acme_info" => offset = 372100 /\ pos = At(SecAcme)
        /\ ~ValidAcmeMarker(readfile) =>
              /\ pc \notin (AfterAcme \cup {"raised"})
              /\ pc = "from_file_returned" =>
                    /\ err = "ACME string missing! Abort"
                    /\ lcp = NoModel
                    /\ instance = NoModel
                    /\ pos <= At(SecAcme) + 5
                    /\ offset <= 372105

\* a whole file with a valid magic block and "acme" followed by a byte that
\* is not NUL was refused, the cursor at 0x5AD89
C2_Witness ==
    /\ pc = "from_file_returned"
    /\ FullSize(readfile)
    /\ ValidMagicBlock(readfile)
    /\ SubSeq(readfile, At(SecAcme) + 1, At(SecAcme) + 4) = <<97, 99, 109, 101>>
    /\ ~ValidAcmeMarker(readfile)
    /\ err = "ACME string missing! Abort"
    /\ lcp = NoModel
    /\ offset = 372105

\* C3: for the minimal valid file (every section zero except the two
\* markers), to_file of the model from_file returned writes a file equal to
\* the input byte for byte.
C3_FullRoundTrip ==
    (pc = "to_file_returned" /\ filename = "input" /\ input = MinimalFile) => out = input

\* C4: to_file, run to its end on a model that was constructed, loaded, or
\* edited within the widths, has written 0x80200 = 524800 bytes: the size of
\* a whole file (in the scaled file, the size of a whole scaled file).
C4_TotalSize ==
    pc = "to_file_returned" => offset = 524800 /\ Len(out) = FileSize(ScaledCounts)

\* to_file ran on a freshly constructed model
C4_Witness ==
    /\ pc = "to_file_returned"
    /\ saved = LedCommanderParser_init
    /\ filename = ""
    /\ offset = 524800

\* the sections of a model, the objects in place of the references to them
Decoded(m) ==
    [static_scenes |-> [i \in 1..NumStaticScenes |-> StaticScene(m, i)],
     chase_steps |-> [i \in 1..NumChaseSteps |-> ChaseStep(m, i)],
     channel_names |-> m.channel_names,
     dmx_assignments |-> m.dmx_assignments,
     chases |-> [i \in 1..NumChases |-> ChaseOf(m, i)],
     virtual_dimmer_modes |-> m.virtual_dimmer_modes,
     virtual_dimmer_assignments |-> m.virtual_dimmer_assignments]

\* unassigned, Aux1, Aux2, or (fixture 0..15, channel 0..9)
DmxInRange(a) ==
    \/ a = NoAssignment
    \/ a = <<NoFixture, 11>>
    \/ a = <<NoFixture, 10>>
    \/ a[1] \in 0..15 /\ a[2] \in 0..9

SceneInRange(sc) ==
    /\ \A f \in 1..16 : Len(sc.fixture_channel_values[f]) = 10
                        /\ \A c \in 1..10 : sc.fixture_channel_values[f][c] \in 0..255
    /\ Len(sc.mystery_flags_1) = 2
    /\ sc.number_of_values \in 0..255
    /\ Len(sc.mystery_flags_2) = 1

InRange(m) ==
    /\ \A i \in 1..NumStaticScenes : SceneInRange(StaticScene(m, i))
    /\ \A i \in 1..NumChaseSteps : SceneInRange(ChaseStep(m, i))
    /\ \A k \in 1..NumChannelNames : Len(m.channel_names[k]) = 7
    /\ \A k \in 1..NumDmxChannels : DmxInRange(m.dmx_assignments[k])
    /\ \A i \in 1..NumChases :
          /\ ChaseOf(m, i).step_count \in 0..65535
          /\ \A st \in 1..NumChaseSteps : ChaseOf(m, i).step_ids[st] \in 0..65535
    /\ \A f \in 1..16 : m.virtual_dimmer_modes[f] \in 0..255
    /\ \A f \in 1..16 : \A c \in 1..10 : m.virtual_dimmer_assignments[f][c] \in 0..255

\* C5: from_file of the file to_file wrote for a model with in-range values
\* succeeds, and the model it returns has the same scenes, chase steps,
\* names, DMX assignments, chases (step counts and step ids) and virtual
\* dimmer modes and assignments as the model that was written.
C5_SaveThenLoad ==
    (pc = "from_file_returned" /\ filename = "out" /\ InRange(saved)) =>
        /\ lcp # NoModel
        /\ err = ""
        /\ Decoded(lcp) = Decoded(saved)

\* a model edited by the caller (DMX channel assigned to fixture 3, channel
\* 7) was written and read back
C5_Witness ==
    /\ pc = "from_file_returned"
    /\ filename = "out"
    /\ mutations > 0
    /\ InRange(saved)
    /\ saved.dmx_assignments[NumDmxChannels] = <<3, 7>>
    /\ lcp # NoModel
    /\ lcp.dmx_assignments[NumDmxChannels] = <<3, 7>>

\* the file a reader of from_file is reading is a whole file
ReadingWhole == readfile # NoFile /\ FullSize(readfile)

\* C6: on a whole file each section is read starting at the offset of the
\* file-format table (the unconfirmed bytes at 0x6A989, the virtual dimmer
\* modes at 0x6A98D, the apply flags at 0x6A99D, the trailing region at
\* 0x6AA3D), and to_file writes each section at the same offset.
C6_SectionOffsets ==
    /\ (pc = "_read_scenes" /\ ReadingWhole) => offset = 512
    /\ (pc = "_read_names" /\ ReadingWhole) => offset = 371456
    /\ (pc = "_read_dmx_channel_assignments" /\ ReadingWhole) => offset = 371540
    /\ (pc = "_read_chase_info" /\ ReadingWhole) => offset = 372052
    /\ (pc = "_read_acme_info" /\ ReadingWhole) => offset = 372100
    /\ (pc = "_read_mystery_dmx_info" /\ ReadingWhole) => offset = 372105
    /\ (pc = "_read_chase_step_assignments" /\ ReadingWhole) => offset = 372617
    /\ (pc = "_read_random_bytes" /\ ReadingWhole) => offset = 436617
    /\ (pc = "_read_virtual_dimmer_modes" /\ ReadingWhole) => offset = 436621
    /\ (pc = "_read_virtual_dimmer_assignments" /\ ReadingWhole) => offset = 436637
    /\ (pc = "_read_rest" /\ ReadingWhole) => offset = 436797
    /\ pc = "_write_scenes" => offset = 512
    /\ pc = "_write_names" => offset = 371456
    /\ pc = "_write_dmx_channel_assignments" => offset = 371540
    /\ pc = "_write_chase_info" => offset = 372052
    /\ pc = "_write_acme_info" => offset = 372100
    /\ pc = "_write_mystery_dmx_info" => offset = 372105
    /\ pc = "_write_chase_step_assignments" => offset = 372617
    /\ pc = "_write_random_bytes" => offset = 436617
    /\ pc = "_write_virtual_dimmer_modes" => offset = 436621
    /\ pc = "_write_virtual_dimmer_assignments" => offset = 436637
    /\ pc = "_write_rest" => offset = 436797

\* C7: Scene.parse_from of the 184 bytes Scene.serialize_to wrote returns a
\* scene equal to the one written in all five fields, and bit i of the 20
\* bitmap bytes (lowest bit of each byte first) is the active flag of
\* (fixture, channel) = divmod(i, 10).
C7_SceneRoundTrip ==
    pc = "scene_parsed" =>
        /\ Len(buf) = 184
        /\ res = arg
        /\ \A i \in 0..159 :
              ((buf[160 + (i \div 8) + 1] \div (2 ^ (i % 8))) % 2 = 1)
                  = arg.fixture_channel_active[(i \div 10) + 1][(i % 10) + 1]

\* the scene whose only active cell is (fixture 1, channel 0), bit 10 of the
\* bitmap: bit 2 of its second byte
C7_Witness ==
    /\ pc = "scene_parsed"
    /\ arg.fixture_channel_active[2][1]
    /\ ~arg.fixture_channel_active[1][1]
    /\ arg.number_of_values = 160
    /\ buf[162] = 4
    /\ res = arg

\* C8: every byte 0..255 is classified (0xA2 unassigned, 0xA1 Aux1 with
\* channel id 11, 0xA0 Aux2 with channel id 10, any other b the pair
\* (b div 10, b mod 10)), and the byte written for the assignment it was
\* classified as is the byte itself.
C8_DmxInverse ==
    pc \in {"dmx_decoded", "dmx_encoded"} =>
        /\ arg = 162 => res = <<>>
        /\ arg = 161 => res = <<-1, 11>>
        /\ arg = 160 => res = <<-1, 10>>
        /\ arg \notin {160, 161, 162} => res = <<arg \div 10, arg % 10>>
        /\ pc = "dmx_encoded" => buf = <<arg>>

\* the byte 0xFF, classified as (fixture 25, channel 5) and written as 0xFF
C8_Witness ==
    /\ pc = "dmx_encoded"
    /\ arg = 255
    /\ res = <<25, 5>>
    /\ buf = <<255>>

\* the 16-bit value at position at of f (low byte first)
WordAt(f, at) == f[at + 1] + 256 * f[at + 2]

\* C9: after from_file of the input and to_file of the model it returned,
\* every chase has the step count and every one of its step ids as the
\* input holds them (whatever the step count is), and the output holds the
\* same 16-bit values at the same places.
C9_ChasePreserved ==
    (pc = "to_file_returned" /\ filename = "input") =>
        \A k \in 0..(NumChases - 1) :
            /\ ChaseOf(saved, k + 1).step_count = WordAt(input, At(SecChaseInfo) + 3 * k)
            /\ WordAt(out, At(SecChaseInfo) + 3 * k) = WordAt(input, At(SecChaseInfo) + 3 * k)
            /\ \A st \in 0..(NumChaseSteps - 1) :
                  LET at == At(SecChaseSteps) + (k * NumChaseSteps + st) * 2
                  IN  /\ ChaseOf(saved, k + 1).step_ids[st + 1] = WordAt(input, at)
                      /\ WordAt(out, at) = WordAt(input, at)

\* a file whose first chase has a step count above 2000 and whose second
\* chase has step ids beyond its step count was loaded and saved
C9_Witness ==
    /\ pc = "to_file_returned"
    /\ filename = "input"
    /\ ChaseOf(saved, 1).step_count = 2001
    /\ ChaseOf(saved, NumChases).step_count < NumChaseSteps
    /\ ChaseOf(saved, NumChases).step_ids[NumChaseSteps] # 0
    /\ WordAt(out, At(SecChaseInfo)) = 2001

\* every name, value row and flag field of m has its full width
Populated(m) ==
    /\ \A i \in 1..NumStaticScenes : SceneInRange(StaticScene(m, i))
    /\ \A i \in 1..NumChaseSteps : SceneInRange(ChaseStep(m, i))
    /\ \A k \in 1..NumChannelNames : Len(m.channel_names[k]) = 7

\* C10: from_file of a whole file whose magic block and acme marker are
\* valid never raises and returns a model, every section of it populated,
\* whatever the other bytes are.
C10_OnlyMarkersGate ==
    (ReadingWhole /\ ValidMagicBlock(readfile) /\ ValidAcmeMarker(readfile)) =>
        /\ pc # "raised"
        /\ pc = "from_file_returned" =>
              /\ lcp # NoModel
              /\ err = ""
              /\ Populated(lcp)
              /\ pos = Len(readfile)

\* the file that departs from every observed constant was loaded
C10_Witness ==
    /\ pc = "from_file_returned"
    /\ readfile = BusyFile
    /\ readfile[At(SecAcme)] = 7
    /\ readfile[At(SecMystery) + 1] = 3
    /\ readfile[At(SecRest) + 2] = 0
    /\ lcp # NoModel
    /\ ChaseOf(lcp, 1).step_count = 2001

\* the file being read ends before the end of the virtual-dimmer flags
Truncated == readfile # NoFile /\ Len(readfile) < At(SecRest)

\* the two messages from_file logs before `return None`
MarkerErrors == {"Magic number missing! Abort", "ACME string missing! Abort"}

\* the names from_file has stored in the instance it is filling
NamesStored ==
    /\ instance # NoModel
    /\ pc \in {"_read_dmx_channel_assignments", "_read_chase_info", "_read_acme_info",
               "_read_mystery_dmx_info", "_read_chase_step_assignments",
               "_read_random_bytes", "_read_virtual_dimmer_modes",
               "_read_virtual_dimmer_assignments", "_read_rest"}

\* C11: from_file of a file that ends before the end of the virtual-dimmer
\* flags fails with an error that is neither of the two marker errors and
\* returns no model, and no name is stored from fewer bytes than its width.
C11_TruncatedInput ==
    /\ (Truncated /\ pc \in {"from_file_returned", "raised"}) =>
          /\ pc = "raised"
          /\ err \notin MarkerErrors
          /\ lcp = NoModel
    /\ NamesStored =>
          \A k \in 1..NumChannelNames : Len(instance.channel_names[k]) = NAME_SIZE

\* the references of a list are pairwise distinct objects
Distinct(refs) == \A i, j \in 1..Len(refs) : i # j => refs[i] # refs[j]

\* C12: in every model the caller holds, freshly constructed or returned by
\* from_file, the static scenes, the chase steps and the chases are
\* pairwise distinct records, so an edit of one element reaches no other.
C12_NoAliasing ==
    lcp # NoModel =>
        /\ Distinct(lcp.static_scenes)
        /\ Distinct(lcp.chase_steps)
        /\ Distinct(lcp.chases)

=============================================================================
